---- MODULE Spec2Model ----
(***************************************************************************)
(* Model of vitest-probe's scoped event-delivery engine (src/src/index.ts):*)
(* the subscriber registry, the AsyncLocalStorage scope carrier, probeEmit *)
(* and the per-probe queue / pending-waiter protocol of getProbe().        *)
(*                                                                         *)
(* Probes are numbered in creation order; probe o owns the scope symbol o. *)
(* A next() call is numbered in issue order; call c owns the promise c,    *)
(* the waiter c and the timer c.  An emitted event's value is its emission *)
(* number, so that every event is distinguishable from every other.        *)
(*                                                                         *)
(* JavaScript runs each handler to completion, so every operation is one   *)
(* atomic action.  An armed timer may fire at any later step.  A filter is *)
(* a function of the event alone: it returns true or false or throws, and  *)
(* does not call back into the probe.  undefined and the empty Set are the *)
(* same registry: every use of subscribers treats them alike.              *)
(*                                                                         *)
(* The variable build says which build runs: index.ts with __TEST__ true,  *)
(* index.ts with __TEST__ false, or the browser entry src/src/browser.ts.  *)
(***************************************************************************)
EXTENDS Integers, Sequences, FiniteSets, TLC

\* ---- bounds of the model ------------------------------------------------
MaxProbes == 2
MaxCalls == 2
MaxEmits == 3
MaxRuns == 2
MaxBuf == 2

\* ---- program constants --------------------------------------------------
DefaultBufferSize == 100
DefaultTimeoutMs == 1000

\* ---- input domains ------------------------------------------------------
Undefined == -1
NoScope == 0
Chains == {"c1", "c2"}
Labels == {"a", "b"}
\* the option records getProbe is called with
Profiles ==
  { [bufferSize |-> 0, timeoutMs |-> Undefined, filter |-> "none"],
    [bufferSize |-> 1, timeoutMs |-> 50, filter |-> "none"],
    [bufferSize |-> MaxBuf, timeoutMs |-> Undefined, filter |-> "onlyA"],
    [bufferSize |-> 1, timeoutMs |-> 50, filter |-> "reject"],
    [bufferSize |-> 1, timeoutMs |-> Undefined, filter |-> "throwsOnB"],
    [bufferSize |-> Undefined, timeoutMs |-> Undefined, filter |-> "none"] }
ScopeProfiles ==
  { [bufferSize |-> MaxBuf, timeoutMs |-> Undefined, filter |-> "none"] }
\* the n-th probe of the broadcast scenario: a throwing filter on every other one
BroadcastProfile(n) ==
  [bufferSize |-> MaxBuf, timeoutMs |-> Undefined,
   filter |-> IF n % 2 = 1 THEN "throwsOnB" ELSE "none"]
TimeoutArgs == {Undefined, 0}
NoEvent == [label |-> "", value |-> 0]

VARIABLES
  subscribers,  \* the registry, in insertion order (a JS Set iterates so)
  opts,         \* opts[o]: the options probe o was created with
  queue,        \* queue[o]: buffered events of probe o, oldest first
  pending,      \* pending[o]: waiters of probe o, oldest first (call ids)
  timers,       \* armed setTimeout timers (call ids)
  calls,        \* calls[c]: the next() call c and the state of its promise
  ctx,          \* ctx[ch]: stack of als stores of async call chain ch
  emitted,      \* log of probeEmit calls: label, scope tag, and the probe whose
                \* run() was innermost in the emitting call chain (by)
  disposed,     \* probes on which dispose() has been called (history)
  build,        \* the module and flag the program was built with: "test" is
                \* index.ts with __TEST__ true, "prod" index.ts with __TEST__
                \* false, "browser" is browser.ts
  returned      \* what each getProbe() call outside a test build came to:
                \* "stub" (a stub handle was returned) or "throws"

vars == <<subscribers, opts, queue, pending, timers, calls, ctx, emitted, disposed,
          build, returned>>

\* declare const __TEST__: boolean, in the build of index.ts
TEST == build = "test"

Probes == 1..Len(opts)
Calls == 1..Len(calls)

\* number of run() extents that are active, over all call chains
ActiveRuns == Len(ctx["c1"]) + Len(ctx["c2"])

\* ---- helpers --------------------------------------------------------------
RECURSIVE Without(_, _)
Without(s, x) ==
  IF s = <<>> THEN <<>>
  ELSE IF Head(s) = x THEN Without(Tail(s), x)
  ELSE <<Head(s)>> \o Without(Tail(s), x)

Range(s) == {s[i] : i \in 1..Len(s)}

\* x ?? d
Coalesce(x, d) == IF x = Undefined THEN d ELSE x

\* Array.prototype.shift: the removed element and what is left
Shift(s) == [item |-> Head(s), rest |-> Tail(s)]

\* ---- per-probe constants -------------------------------------------------
bufferSize(o) == Coalesce(opts[o].bufferSize, DefaultBufferSize)
timeoutDefault(o) == Coalesce(opts[o].timeoutMs, DefaultTimeoutMs)
scope(o) == o

\* ---- AsyncLocalStorage ----------------------------------------------------
\* one store shared by all call chains: the store of the run() entered last
\* in chain c1, else in chain c2
currentScope_shared(ch) ==
  LET s == ctx["c2"] \o ctx["c1"]
  IN IF s = <<>> THEN NoScope ELSE s[Len(s)]

\* als.getStore()?.scope in call chain ch
currentScope(ch) == IF ctx[ch] = <<>> THEN NoScope ELSE ctx[ch][Len(ctx[ch])]

\* ---- promises -------------------------------------------------------------
\* resolve / reject settle a promise once; later settlements are ignored
Settle(cs, c, outcome, ev) ==
  IF cs[c].outcome = "pending"
  THEN [cs EXCEPT ![c].outcome = outcome, ![c].ev = ev]
  ELSE cs

\* ---- the delivery callback ------------------------------------------------
\* what the user's filter does with an event
FilterResult(f, ev) ==
  CASE f = "none" -> "true"
    [] f = "onlyA" -> IF ev.label = "a" THEN "true" ELSE "false"
    [] f = "reject" -> "false"
    [] f = "throwsOnB" -> IF ev.label = "b" THEN "throw" ELSE "true"

\* an event without scope taken as addressed to everyone
ScopeMatches_unscoped(o, e) == e.scope = scope(o) \/ e.scope = NoScope

\* the scope comparison left out
ScopeMatches_any(o, e) == TRUE

\* e.__scope !== scope is false
ScopeMatches(o, e) == e.scope = scope(o)

\* the filter's verdict ignored
FilterRejects_never(o, ev) == FALSE

\* opts?.filter && !opts.filter(ev)
FilterRejects(o, ev) ==
  opts[o].filter # "none" /\ FilterResult(opts[o].filter, ev) = "false"

\* pending.pop() in place of pending.shift()
TakeWaiter_last(ps) == [item |-> ps[Len(ps)], rest |-> SubSeq(ps, 1, Len(ps) - 1)]

\* pending.shift()
TakeWaiter(ps) == Shift(ps)

\* the timer left armed
ClearTimeout_leak(ts, t) == ts

\* clearTimeout(p.timer)
ClearTimeout(ts, t) == ts \ {t}

\* if (queue.length >= bufferSize) queue.shift(); queue.push(ev)
\* (shift() of an empty array removes nothing)
Push(q, n, ev) == Append(IF Len(q) >= n /\ q # <<>> THEN Shift(q).rest ELSE q, ev)

\* st = [queue, pending, timers, calls, visited, thrown]
sub(o, e, st) ==
  LET ev == [label |-> e.label, value |-> e.value]
  IN IF ~ScopeMatches(o, e) THEN st
     ELSE IF FilterResult(opts[o].filter, ev) = "throw" THEN [st EXCEPT !.thrown = TRUE]
     ELSE IF FilterRejects(o, ev) THEN st
     ELSE IF st.pending[o] # <<>>
       THEN LET p == TakeWaiter(st.pending[o])
            IN [st EXCEPT !.pending[o] = p.rest,
                          !.timers = ClearTimeout(@, p.item),
                          !.calls = Settle(@, p.item, "resolved", ev)]
       ELSE [st EXCEPT !.queue[o] = Push(@, bufferSize(o), ev)]

\* s(e) without the try / catch
TryCall_nocatch(o, e, st) == sub(o, e, [st EXCEPT !.visited = Append(@, o)])

\* try { s(e) } catch { }
TryCall(o, e, st) ==
  [sub(o, e, [st EXCEPT !.visited = Append(@, o)]) EXCEPT !.thrown = FALSE]

\* for (const s of subscribers) ...; an uncaught exception leaves the loop
RECURSIVE Broadcast(_, _, _)
Broadcast(subs, e, st) ==
  IF subs = <<>> \/ st.thrown THEN st
  ELSE Broadcast(Tail(subs), e, TryCall(Head(subs), e, st))

\* ---- initial state --------------------------------------------------------
Init ==
  /\ subscribers = <<>>
  /\ opts = <<>>
  /\ queue = <<>>
  /\ pending = <<>>
  /\ timers = {}
  /\ calls = <<>>
  /\ ctx = [ch \in Chains |-> <<>>]
  /\ emitted = <<>>
  /\ disposed = {}
  /\ build = "test"
  /\ returned = <<>>

\* ---- operations -----------------------------------------------------------
\* getProbe(opts) in a test build
GetProbe(bs, tm, f) ==
  /\ TEST
  /\ Len(opts) < MaxProbes
  /\ opts' = Append(opts, [bufferSize |-> bs, timeoutMs |-> tm, filter |-> f])
  /\ queue' = Append(queue, <<>>)
  /\ pending' = Append(pending, <<>>)
  /\ subscribers' = Append(subscribers, Len(opts) + 1)
  /\ UNCHANGED <<timers, calls, ctx, emitted, disposed, build, returned>>

\* the event probeEmit builds in call chain ch, and the outcome of its broadcast
EmitEvent(ch, label) ==
  [label |-> label, value |-> Len(emitted) + 1, scope |-> currentScope(ch)]

EmitResult(ch, label) ==
  LET st0 == [queue |-> queue, pending |-> pending, timers |-> timers,
              calls |-> calls, visited |-> <<>>, thrown |-> FALSE]
  IN IF subscribers = <<>> THEN st0
     ELSE Broadcast(subscribers, EmitEvent(ch, label), st0)

\* probeEmit(label, value) from call chain ch
ProbeEmit(ch, label) ==
  /\ TEST
  /\ Len(emitted) < MaxEmits
  /\ LET st == EmitResult(ch, label)
     IN /\ queue' = st.queue
        /\ pending' = st.pending
        /\ timers' = st.timers
        /\ calls' = st.calls
  /\ emitted' = Append(emitted, [label |-> label, scope |-> currentScope(ch),
                                 by |-> IF ctx[ch] = <<>> THEN NoScope
                                        ELSE ctx[ch][Len(ctx[ch])]])
  /\ UNCHANGED <<subscribers, opts, ctx, disposed, build, returned>>

\* the buffer never looked at
HasBuffered_never(q) == FALSE

\* if (queue.length)
HasBuffered(q) == Len(q) # 0

\* queue.pop() in place of queue.shift()
TakeBuffered_newest(q) == [item |-> q[Len(q)], rest |-> SubSeq(q, 1, Len(q) - 1)]

\* queue.shift() in next
TakeBuffered(q) == Shift(q)

\* timeoutMs ?? timeoutDefault
EffectiveMs(o, timeoutMs) == Coalesce(timeoutMs, timeoutDefault(o))

\* probe.next(timeoutMs)
NextCall(o, timeoutMs) ==
  /\ o \in Probes
  /\ Len(calls) < MaxCalls
  /\ LET c == Len(calls) + 1
         call == [probe |-> o, ms |-> Undefined, outcome |-> "pending", ev |-> NoEvent]
     IN IF HasBuffered(queue[o])
        THEN /\ calls' = Append(calls, [call EXCEPT !.outcome = "resolved",
                                                    !.ev = TakeBuffered(queue[o]).item])
             /\ queue' = [queue EXCEPT ![o] = TakeBuffered(@).rest]
             /\ UNCHANGED <<pending, timers>>
        ELSE /\ calls' = Append(calls, [call EXCEPT !.ms = EffectiveMs(o, timeoutMs)])
             /\ timers' = timers \cup {c}
             /\ pending' = [pending EXCEPT ![o] = Append(@, c)]
             /\ UNCHANGED queue
  /\ UNCHANGED <<subscribers, opts, ctx, emitted, disposed, build, returned>>

\* asyncIterator.next(): await next()
IteratorNext(o) == NextCall(o, Undefined)

\* the timed-out waiter left in pending
RemoveWaiter_keep(ps, c) == ps

\* const i = pending.findIndex(...); if (i !== -1) pending.splice(i, 1)
RemoveWaiter(ps, c) == Without(ps, c)

\* the setTimeout callback of call c
TimerFire(c) ==
  /\ c \in timers
  /\ timers' = timers \ {c}
  /\ pending' = [pending EXCEPT ![calls[c].probe] = RemoveWaiter(@, c)]
  /\ calls' = Settle(calls, c, "timeout", NoEvent)
  /\ UNCHANGED <<subscribers, opts, queue, ctx, emitted, disposed, build, returned>>

\* every waiting call rejected, whichever probe it belongs to
RejectAll_everyone(cs, ps) ==
  [c \in DOMAIN cs |->
     IF cs[c].outcome = "pending" THEN [cs[c] EXCEPT !.outcome = "disposed"] ELSE cs[c]]

\* the waiters not rejected
RejectAll_none(cs, ps) == cs

\* for (const p of pending.splice(0)) { ...; p.reject(new Error('Probe disposed')) }
RECURSIVE RejectAll(_, _)
RejectAll(cs, ps) ==
  IF ps = <<>> THEN cs
  ELSE RejectAll(Settle(cs, Head(ps), "disposed", NoEvent), Tail(ps))

\* for (const p of pending.splice(0)) { clearTimeout(p.timer); ... }
RECURSIVE ClearAll(_, _)
ClearAll(ts, ps) ==
  IF ps = <<>> THEN ts
  ELSE ClearAll(ClearTimeout(ts, Head(ps)), Tail(ps))

\* subscribers.clear() in place of subscribers.delete(sub)
Unregister_all(subs, o) == <<>>

\* subscribers?.delete(sub)
Unregister(subs, o) == Without(subs, o)

\* the buffer not cleared
Truncate_keep(q) == q

\* queue.length = 0
Truncate(q) == <<>>

\* probe.dispose()
Dispose(o) ==
  /\ o \in Probes
  /\ subscribers' = Unregister(subscribers, o)
  /\ timers' = ClearAll(timers, pending[o])
  /\ calls' = RejectAll(calls, pending[o])
  /\ pending' = [pending EXCEPT ![o] = <<>>]
  /\ queue' = [queue EXCEPT ![o] = Truncate(@)]
  /\ disposed' = disposed \cup {o}
  /\ UNCHANGED <<opts, ctx, emitted, build, returned>>

\* probe.run(fn): als.run({ scope }, fn) entered by call chain ch
RunEnter(ch, o) ==
  /\ o \in Probes
  /\ ActiveRuns < MaxRuns
  /\ ctx' = [ctx EXCEPT ![ch] = Append(@, scope(o))]
  /\ UNCHANGED <<subscribers, opts, queue, pending, timers, calls, emitted, disposed, build, returned>>

\* the store dropped when a run() returns
Restore_clear(stack) == <<>>

\* als.run returns: the store the chain had before is in force again
Restore(stack) == SubSeq(stack, 1, Len(stack) - 1)

\* the extent of the innermost run() of call chain ch ends
RunExit(ch) ==
  /\ ctx[ch] # <<>>
  /\ ctx' = [ctx EXCEPT ![ch] = Restore(@)]
  /\ UNCHANGED <<subscribers, opts, queue, pending, timers, calls, emitted, disposed, build, returned>>

\* ---- outside a test build --------------------------------------------------
Builds == {"test", "prod", "browser"}

\* the program starts in any of the three builds
InitBuilds ==
  /\ subscribers = <<>>
  /\ opts = <<>>
  /\ queue = <<>>
  /\ pending = <<>>
  /\ timers = {}
  /\ calls = <<>>
  /\ ctx = [ch \in Chains |-> <<>>]
  /\ emitted = <<>>
  /\ disposed = {}
  /\ build \in Builds
  /\ returned = <<>>

\* the stub handles a caller holds
StubHandles == {h \in 1..Len(returned) : returned[h] = "stub"}

\* getProbe() of index.ts with __TEST__ false: returns the stub object
GetProbeStub ==
  /\ build = "prod"
  /\ Len(returned) < MaxProbes
  /\ returned' = Append(returned, "stub")
  /\ UNCHANGED <<subscribers, opts, queue, pending, timers, calls, ctx, emitted, disposed, build>>

\* getProbe() of browser.ts: throws
GetProbeBrowser ==
  /\ build = "browser"
  /\ Len(returned) < MaxProbes
  /\ returned' = Append(returned, "throws")
  /\ UNCHANGED <<subscribers, opts, queue, pending, timers, calls, ctx, emitted, disposed, build>>

\* a stub next() whose promise is never settled
fail_pending == "pending"

\* fail = async () => { throw new Error('getProbe() used outside tests') }:
\* the outcome of the promise it returns
fail == "outside"

\* next(timeoutMs) of stub handle h
StubNext(h, timeoutMs) ==
  /\ h \in StubHandles
  /\ Len(calls) < MaxCalls
  /\ calls' = Append(calls, [probe |-> h, ms |-> Undefined, outcome |-> fail, ev |-> NoEvent])
  /\ UNCHANGED <<subscribers, opts, queue, pending, timers, ctx, emitted, disposed, build, returned>>

\* [Symbol.asyncIterator]().next() of stub handle h
StubIteratorNext(h) == StubNext(h, Undefined)

\* dispose() of stub handle h does nothing; the call is noted in the history
StubDispose(h) ==
  /\ h \in StubHandles
  /\ disposed' = disposed \cup {h}
  /\ UNCHANGED <<subscribers, opts, queue, pending, timers, calls, ctx, emitted, build, returned>>

\* run(fn) of stub handle h calls fn with the store the call chain already has
StubRun(ch, h) ==
  /\ h \in StubHandles
  /\ ActiveRuns < MaxRuns
  /\ ctx' = [ctx EXCEPT ![ch] = Append(@, currentScope(ch))]
  /\ UNCHANGED <<subscribers, opts, queue, pending, timers, calls, emitted, disposed, build, returned>>

\* probeEmit(label, value) outside a test build does nothing; the call is
\* noted in the log
EmitNoop(ch, label) ==
  /\ ~TEST
  /\ Len(emitted) < MaxEmits
  /\ emitted' = Append(emitted, [label |-> label, scope |-> NoScope, by |-> NoScope])
  /\ UNCHANGED <<subscribers, opts, queue, pending, timers, calls, ctx, disposed, build, returned>>

\* One probe with every option profile, driven from a single call chain whose
\* runs are not nested.
Next ==
  \/ \E p \in Profiles : Len(opts) = 0 /\ GetProbe(p.bufferSize, p.timeoutMs, p.filter)
  \/ \E l \in Labels : ProbeEmit("c1", l)
  \/ \E o \in Probes, t \in TimeoutArgs : NextCall(o, t)
  \/ \E o \in Probes : IteratorNext(o)
  \/ \E c \in Calls : TimerFire(c)
  \/ \E o \in Probes : Dispose(o)
  \/ \E o \in Probes : ctx["c1"] = <<>> /\ RunEnter("c1", o)
  \/ RunExit("c1")

Spec == Init /\ [][Next]_vars

\* the event loop runs the callback of every armed timer once its delay has
\* passed, unless clearTimeout disarms it first
SpecFair == Spec /\ \A c \in 1..MaxCalls : WF_vars(TimerFire(c))

\* Several unfiltered probes and two interleaved call chains.
NextScopes ==
  \/ \E p \in ScopeProfiles : GetProbe(p.bufferSize, p.timeoutMs, p.filter)
  \/ \E ch \in Chains : ProbeEmit(ch, "a")
  \/ \E o \in Probes : NextCall(o, Undefined)
  \/ \E o \in Probes : IteratorNext(o)
  \/ \E c \in Calls : TimerFire(c)
  \/ \E o \in Probes : Dispose(o)
  \/ \E ch \in Chains, o \in Probes : RunEnter(ch, o)
  \/ \E ch \in Chains : RunExit(ch)

SpecScopes == Init /\ [][NextScopes]_vars

\* The three builds: the test build as in Next, and the calls a program can
\* make on the other two.
NextBuilds ==
  \/ Next
  \/ GetProbeStub
  \/ GetProbeBrowser
  \/ \E h \in StubHandles, t \in TimeoutArgs : StubNext(h, t)
  \/ \E h \in StubHandles : StubIteratorNext(h)
  \/ \E h \in StubHandles : StubDispose(h)
  \/ \E h \in StubHandles : StubRun("c1", h)
  \/ \E l \in Labels : EmitNoop("c1", l)

SpecBuilds == InitBuilds /\ [][NextBuilds]_vars

\* Several probes, some with a throwing filter; runs are not nested.
NextBroadcast ==
  \/ LET p == BroadcastProfile(Len(opts) + 1)
     IN GetProbe(p.bufferSize, p.timeoutMs, p.filter)
  \/ \E l \in Labels : ProbeEmit("c1", l)
  \/ \E o \in Probes : NextCall(o, Undefined)
  \/ \E o \in Probes : IteratorNext(o)
  \/ \E c \in Calls : TimerFire(c)
  \/ \E o \in Probes : Dispose(o)
  \/ \E o \in Probes : ctx["c1"] = <<>> /\ RunEnter("c1", o)
  \/ RunExit("c1")

SpecBroadcast == Init /\ [][NextBroadcast]_vars

\* ---- vocabulary of the properties -----------------------------------------
Resolved(c) == calls[c].outcome = "resolved"
CallsOf(o) == {c \in Calls : calls[c].probe = o}
Emissions == 1..Len(emitted)
QueueValues(o) == {queue[o][k].value : k \in 1..Len(queue[o])}
DeliveredValues(o) == {calls[c].ev.value : c \in {d \in CallsOf(o) : Resolved(d)}}

\* C1: an event emitted under the run() of probe o1 is never in the buffer of
\* another probe o2 and never resolves a next() call of o2.
ScopeIsolation ==
  \A o1 \in Probes, o2 \in Probes :
    o1 # o2 =>
      \A i \in Emissions :
        emitted[i].by = o1 => i \notin QueueValues(o2) /\ i \notin DeliveredValues(o2)

\* probe 2 has a waiter that was pending when an event of probe 1's scope was
\* handed to a later waiter of probe 1
ScopeIsolationWitness ==
  /\ Len(calls) = 2
  /\ calls[1].probe = 2 /\ calls[1].outcome = "pending"
  /\ calls[2].probe = 1 /\ Resolved(2) /\ calls[2].ms # Undefined
  /\ emitted[calls[2].ev.value].by = 1

\* C2: the events the next() calls of one probe resolve with are, in call
\* order, in emission order, and each was emitted in the probe's scope and
\* passed its filter; what is still buffered is in emission order and newer.
FifoDelivery ==
  \A o \in Probes :
    /\ \A c \in CallsOf(o), d \in CallsOf(o) :
         c < d /\ Resolved(c) /\ Resolved(d) => calls[c].ev.value < calls[d].ev.value
    /\ \A c \in CallsOf(o) :
         Resolved(c) =>
           /\ calls[c].ev.value \in Emissions
           /\ emitted[calls[c].ev.value].scope = scope(o)
           /\ emitted[calls[c].ev.value].label = calls[c].ev.label
           /\ FilterResult(opts[o].filter, calls[c].ev) = "true"
    /\ \A k \in 1..Len(queue[o]) - 1 : queue[o][k].value < queue[o][k + 1].value
    /\ \A v \in QueueValues(o), w \in DeliveredValues(o) : w < v

\* one call was handed its event as a waiter, a later one took it from the buffer
FifoDeliveryWitness ==
  \E o \in Probes : \E c \in CallsOf(o), d \in CallsOf(o) :
    /\ c < d /\ Resolved(c) /\ Resolved(d)
    /\ calls[c].ms # Undefined /\ calls[d].ms = Undefined

\* ---- C3 -------------------------------------------------------------------
\* the events probe o accepted: its own scope, its filter returned true
AcceptedValues(o) ==
  {i \in Emissions :
     /\ emitted[i].scope = scope(o)
     /\ FilterResult(opts[o].filter, [label |-> emitted[i].label, value |-> i]) = "true"}

\* the n most recent of a set of emission numbers
MostRecent(S, n) == {i \in S : Cardinality({j \in S : j > i}) < n}

\* C3: while no next() call has been made on a probe with bufferSize N, its
\* buffer holds exactly the N most recent of the events it accepted, in
\* emission order: the oldest count - N are lost (next() then takes them from
\* the front, C7).
DropOldest ==
  \A o \in Probes \ disposed :
    CallsOf(o) = {} =>
      /\ QueueValues(o) = MostRecent(AcceptedValues(o), bufferSize(o))
      /\ \A k \in 1..Len(queue[o]) - 1 : queue[o][k].value < queue[o][k + 1].value

\* the same for a probe with bufferSize N >= 1 (holds)
DropOldestFromOne ==
  \A o \in Probes \ disposed :
    CallsOf(o) = {} /\ bufferSize(o) >= 1 =>
      /\ QueueValues(o) = MostRecent(AcceptedValues(o), bufferSize(o))
      /\ \A k \in 1..Len(queue[o]) - 1 : queue[o][k].value < queue[o][k + 1].value

\* ---- C4 -------------------------------------------------------------------
\* C4: every event carries the scope of the probe whose run() is innermost in
\* the emitting call chain, whatever the other chain does, and a next() call
\* resolves only with events emitted under its own probe's run().
ScopePropagation ==
  /\ \A i \in Emissions :
       emitted[i].scope = IF emitted[i].by = NoScope THEN NoScope ELSE scope(emitted[i].by)
  /\ \A c \in Calls : Resolved(c) => emitted[calls[c].ev.value].by = calls[c].probe

\* the two chains run under different probes, their emissions interleave, and
\* each probe's next() has resolved
ScopePropagationWitness ==
  /\ ctx["c1"] = <<1>> /\ ctx["c2"] = <<2>>
  /\ Len(emitted) = 3
  /\ emitted[1].by = 1 /\ emitted[2].by = 2 /\ emitted[3].by = 1
  /\ \E c \in CallsOf(1) : Resolved(c)
  /\ \E c \in CallsOf(2) : Resolved(c)

\* ---- C5 -------------------------------------------------------------------
\* C5: dispose() rejects every next() call pending on the probe with
\* 'disposed', and no next() call of a disposed probe, old or new, is ever
\* resolved with an event afterwards.
AfterDispose ==
  [][ /\ \A o \in Probes :
           Dispose(o) =>
             \A c \in CallsOf(o) :
               calls[c].outcome = "pending" => calls'[c].outcome = "disposed"
      /\ \A c \in 1..Len(calls') :
           calls'[c].probe \in disposed' /\ calls'[c].outcome = "resolved" =>
             c \in Calls /\ calls[c].outcome = "resolved" ]_vars

\* a disposed probe with a rejected call, a call made after dispose() that is
\* still waiting, and an emission in its scope
AfterDisposeWitness ==
  \E o \in disposed : \E c \in CallsOf(o), d \in CallsOf(o) :
    /\ c < d
    /\ calls[c].outcome = "disposed"
    /\ calls[d].outcome = "pending"
    /\ \E i \in Emissions : emitted[i].scope = scope(o)

\* ---- C6 -------------------------------------------------------------------
Min(S) == CHOOSE x \in S : \A y \in S : x <= y
Waiting(o) == {c \in CallsOf(o) : calls[c].outcome = "pending"}

\* C6: a next() call on an empty buffer waits for timeoutMs if given, else for
\* the probe's default; when its timer fires it is rejected with a timeout
\* naming that duration and leaves the pending set; it never takes an event
\* afterwards: a later event goes to the oldest call still waiting, or into
\* the buffer.
TimeoutProtocol ==
  [][ /\ \A o \in Probes, t \in TimeoutArgs :
           NextCall(o, t) /\ Len(queue[o]) = 0 =>
             calls'[Len(calls')].ms =
               IF t # Undefined THEN t
               ELSE IF opts[o].timeoutMs # Undefined THEN opts[o].timeoutMs
               ELSE DefaultTimeoutMs
      /\ \A c \in Calls :
           TimerFire(c) /\ calls[c].outcome = "pending" =>
             /\ calls'[c].outcome = "timeout"
             /\ calls'[c].ms = calls[c].ms
             /\ c \notin Range(pending'[calls[c].probe])
      /\ \A c \in Calls : calls[c].outcome = "timeout" => calls'[c] = calls[c]
      /\ \A o \in Range(subscribers) :
           ( /\ Len(emitted') = Len(emitted) + 1
             /\ Len(emitted') \in AcceptedValues(o)'
             /\ \E c \in CallsOf(o) : calls[c].outcome = "timeout" ) =>
             IF Waiting(o) # {}
             THEN /\ calls'[Min(Waiting(o))].outcome = "resolved"
                  /\ calls'[Min(Waiting(o))].ev.value = Len(emitted')
             ELSE Len(emitted') \in QueueValues(o)' ]_vars

\* a call timed out and the event that arrived later went to the next waiter
TimeoutProtocolWitness ==
  \E o \in Probes : \E c \in CallsOf(o), d \in CallsOf(o) :
    /\ c < d
    /\ calls[c].outcome = "timeout" /\ calls[c].ms = 0
    /\ Resolved(d) /\ calls[d].ms = 50

\* ---- C7 -------------------------------------------------------------------
\* C7: next() on a non-empty buffer resolves at once with the oldest buffered
\* event, removes that event and no other, and adds no waiter and no timer.
ImmediateConsumption ==
  [][ \A o \in Probes, t \in TimeoutArgs :
        NextCall(o, t) /\ Len(queue[o]) > 0 =>
          /\ calls'[Len(calls')].outcome = "resolved"
          /\ calls'[Len(calls')].ev.value = Min(QueueValues(o))
          /\ QueueValues(o)' = QueueValues(o) \ {Min(QueueValues(o))}
          /\ Len(queue'[o]) = Len(queue[o]) - 1
          /\ pending' = pending
          /\ timers' = timers ]_vars

\* a call took the oldest of several buffered events
ImmediateConsumptionWitness ==
  \E o \in Probes : \E c \in CallsOf(o) :
    /\ Resolved(c) /\ calls[c].ms = Undefined
    /\ \E v \in QueueValues(o) : calls[c].ev.value < v

\* ---- C8 -------------------------------------------------------------------
\* C8: an event the filter returns false for is neither buffered nor handed
\* to a waiter; with a filter that always returns false the buffer stays
\* empty and no next() call resolves: it times out (or is rejected by
\* dispose()).
FilterRejection ==
  \A o \in Probes :
    /\ \A k \in 1..Len(queue[o]) : FilterResult(opts[o].filter, queue[o][k]) # "false"
    /\ \A c \in CallsOf(o) :
         Resolved(c) => FilterResult(opts[o].filter, calls[c].ev) # "false"
    /\ opts[o].filter = "reject" =>
         /\ queue[o] = <<>>
         /\ \A c \in CallsOf(o) :
              /\ calls[c].outcome \in {"pending", "timeout", "disposed"}
              /\ calls[c].outcome = "disposed" => o \in disposed

\* events were emitted in the scope of a live probe whose filter rejects
\* everything, and its next() timed out
FilterRejectionWitness ==
  \E o \in Probes \ disposed :
    /\ opts[o].filter = "reject"
    /\ \E c \in CallsOf(o) : calls[c].outcome = "timeout"
    /\ \E i \in Emissions, j \in Emissions : i # j /\ emitted[i].scope = scope(o)
                                              /\ emitted[j].scope = scope(o)

\* ---- C9 -------------------------------------------------------------------
\* C9: probeEmit never throws; when a probe's callback throws, every
\* registered probe's callback is still called, and the buffer and the waiters
\* of the probe that threw are left as they were.
BroadcastIsolation ==
  [][ \A l \in Labels :
        ProbeEmit("c1", l) =>
          LET e == EmitEvent("c1", l)
              r == EmitResult("c1", l)
          IN /\ ~r.thrown
             /\ r.visited = subscribers
             /\ \A o \in Range(subscribers) :
                  ( /\ e.scope = scope(o)
                    /\ FilterResult(opts[o].filter, e) = "throw" ) =>
                    /\ queue'[o] = queue[o]
                    /\ pending'[o] = pending[o] ]_vars

\* the filter of probe 1 threw while probe 1 held a buffered event and probe 2
\* was registered behind it
BroadcastIsolationWitness ==
  /\ Len(opts) >= 2 /\ disposed = {}
  /\ opts[1].filter = "throwsOnB"
  /\ \E i \in Emissions :
       /\ emitted[i].scope = scope(1) /\ emitted[i].label = "b"
       /\ \E j \in QueueValues(1) : j < i
       /\ \E k \in QueueValues(2) : k < i

\* ---- C10 ------------------------------------------------------------------
\* C10: a probeEmit outside every run(), or with no probe registered, changes
\* no buffer, no waiter, no timer and settles no next() call.
UnscopedInert ==
  [][ \A ch \in Chains, l \in Labels :
        ProbeEmit(ch, l) /\ (ctx[ch] = <<>> \/ Len(subscribers) = 0) =>
          UNCHANGED <<queue, pending, timers, calls>> ]_vars

\* an emission outside every run() was made while call 1 was waiting
UnscopedInertWitness ==
  /\ Len(calls) = 2
  /\ calls[1].outcome = "pending"
  /\ Resolved(2) /\ calls[2].ms # Undefined
  /\ \E i \in Emissions : i > calls[2].ev.value /\ emitted[i].by = NoScope

\* ---- C11 ------------------------------------------------------------------
\* the probes whose run() encloses the innermost run() of call chain ch
Enclosing(ch) == {ctx[ch][k] : k \in 1..(Len(ctx[ch]) - 1)} \ {currentScope(ch)}

\* C11: an event emitted inside nested run() extents carries the scope of the
\* innermost run() only, and the probes of the enclosing run() extents receive
\* nothing of it; when a run() returns, the scope of the enclosing run() is in
\* force again, and none once the outermost run() has returned; an emission
\* outside every run() carries no scope.
NestedRun ==
  [][ /\ \A ch \in Chains, l \in Labels :
           ProbeEmit(ch, l) =>
             /\ emitted'[Len(emitted')].scope =
                  IF ctx[ch] = <<>> THEN NoScope ELSE scope(ctx[ch][Len(ctx[ch])])
             /\ \A o \in Enclosing(ch) :
                  /\ queue'[o] = queue[o]
                  /\ pending'[o] = pending[o]
                  /\ \A c \in CallsOf(o) : calls'[c] = calls[c]
      /\ \A ch \in Chains :
           RunExit(ch) =>
             currentScope(ch)' =
               IF Len(ctx[ch]) >= 2 THEN scope(ctx[ch][Len(ctx[ch]) - 1]) ELSE NoScope ]_vars

\* probe 1 took the events emitted before and after a nested run() of probe 2,
\* probe 2 the one emitted inside it, and probe 1's run() is still in progress
NestedRunWitness ==
  /\ Len(opts) = 2 /\ Len(emitted) = 3
  /\ \E ch \in Chains : ctx[ch] = <<1>> /\ \A other \in Chains \ {ch} : ctx[other] = <<>>
  /\ emitted[1].scope = scope(1) /\ emitted[2].scope = scope(2) /\ emitted[3].scope = scope(1)
  /\ QueueValues(1) = {1, 3} /\ QueueValues(2) = {2}

\* ---- C12 ------------------------------------------------------------------
\* C12 as stated: outside a test build every getProbe() call throws, so no
\* caller ever holds a handle.
FactoryFails ==
  ~TEST => StubHandles = {}

\* C12: in the browser build every getProbe() call throws and there is no
\* handle; in a non-test build of index.ts getProbe() returns a stub handle:
\* each next() on it is rejected at once with 'getProbe() used outside tests',
\* dispose() and run() change nothing; in neither build is a probe ever
\* registered, an event buffered or delivered, a timer armed or a scope set.
OutsideTests ==
  /\ build = "browser" =>
       /\ \A k \in 1..Len(returned) : returned[k] = "throws"
       /\ calls = <<>> /\ disposed = {} /\ ActiveRuns = 0
  /\ build = "prod" =>
       /\ \A k \in 1..Len(returned) : returned[k] = "stub"
       /\ \A c \in Calls : calls[c].probe \in StubHandles /\ calls[c].outcome = "outside"
  /\ ~TEST =>
       /\ subscribers = <<>> /\ opts = <<>> /\ queue = <<>> /\ pending = <<>>
       /\ timers = {}
       /\ \A ch \in Chains : currentScope(ch) = NoScope
  /\ TEST =>
       /\ returned = <<>>
       /\ \A c \in Calls : calls[c].outcome # "outside"

\* a non-test build of index.ts in which a stub handle is held: next() on it
\* was rejected, dispose() was called, and an emission was made inside its
\* run()
OutsideTestsWitness ==
  /\ build = "prod"
  /\ \E h \in StubHandles :
       /\ \E c \in CallsOf(h) : calls[c].outcome = "outside"
       /\ h \in disposed
  /\ ctx["c1"] # <<>> /\ emitted # <<>>

\* ---- C13 ------------------------------------------------------------------
\* C13: dispose() on a probe that was disposed before finds it unregistered
\* with an empty buffer and leaves the registry and every buffer as they are;
\* it changes no call that is already settled (none is rejected twice) and no
\* call or waiter of another probe; the probe is left without waiters, as
\* after the first dispose(); with no next() call made in between it changes
\* nothing at all.
DisposeIdempotent ==
  [][ \A o \in disposed :
        Dispose(o) =>
          /\ o \notin Range(subscribers) /\ queue[o] = <<>>
          /\ subscribers' = subscribers
          /\ queue' = queue
          /\ pending'[o] = <<>>
          /\ \A c \in Calls : calls[c].outcome # "pending" => calls'[c] = calls[c]
          /\ \A p \in Probes \ {o} :
               /\ pending'[p] = pending[p]
               /\ \A c \in CallsOf(p) : calls'[c] = calls[c] /\ (c \in timers' <=> c \in timers)
          /\ pending[o] = <<>> => UNCHANGED vars ]_vars

\* the state a repeated dispose() of probe 1 starts from and ends in: probe 1
\* disposed with a rejected call and no waiter, probe 2 registered and waiting
DisposeIdempotentWitness ==
  /\ 1 \in disposed /\ 2 \in Range(subscribers)
  /\ pending[1] = <<>> /\ pending[2] # <<>>
  /\ \E c \in CallsOf(1) : calls[c].outcome = "disposed"

\* ---- C14 ------------------------------------------------------------------
\* C14: no probe ever has a buffered event and a waiting next() call at the
\* same time.
BufferOrWaiters ==
  \A o \in Probes : ~(queue[o] # <<>> /\ pending[o] # <<>>)

\* one event was handed to a waiting call, a later one found no waiter and
\* was buffered
BufferOrWaitersWitness ==
  \E o \in Probes : \E c \in CallsOf(o) :
    /\ Resolved(c) /\ calls[c].ms # Undefined
    /\ pending[o] = <<>>
    /\ \E v \in QueueValues(o) : v > calls[c].ev.value

\* ---- C15 ------------------------------------------------------------------
\* C15: the buffer of a probe never holds more events than its bufferSize,
\* for every bufferSize from 0 up.
BoundedBuffer ==
  \A o \in Probes : Len(queue[o]) <= bufferSize(o)

\* what the code keeps: the bound is bufferSize, and 1 when bufferSize is 0
BoundedBufferFromOne ==
  \A o \in Probes : Len(queue[o]) <= IF bufferSize(o) = 0 THEN 1 ELSE bufferSize(o)

\* ---- C16 ------------------------------------------------------------------
\* C16: an event a probe accepts while next() calls are waiting settles the
\* oldest of them and no other; a call is never resolved while an older call
\* on the same probe is still waiting, and of two resolved calls the older
\* holds the earlier event.
WaitersFifo ==
  /\ [](\A o \in Probes : \A c \in CallsOf(o), d \in CallsOf(o) :
          c < d /\ Resolved(d) =>
            /\ calls[c].outcome # "pending"
            /\ Resolved(c) => calls[c].ev.value < calls[d].ev.value)
  /\ [][ \A o \in Range(subscribers) :
           ( /\ Len(emitted') = Len(emitted) + 1
             /\ Len(emitted') \in AcceptedValues(o)'
             /\ Waiting(o) # {} ) =>
             /\ pending[o] # <<>> /\ Min(Waiting(o)) = Head(pending[o])
             /\ calls'[Min(Waiting(o))].outcome = "resolved"
             /\ calls'[Min(Waiting(o))].ev.value = Len(emitted')
             /\ pending'[o] = Tail(pending[o])
             /\ \A d \in Waiting(o) \ {Min(Waiting(o))} : calls'[d] = calls[d] ]_vars

\* of two calls that waited on one probe the older was resolved by an event
\* and the later is still the only one waiting
WaitersFifoWitness ==
  \E o \in Probes : \E c \in CallsOf(o), d \in CallsOf(o) :
    /\ c < d
    /\ Resolved(c) /\ calls[c].ms # Undefined
    /\ calls[d].outcome = "pending" /\ pending[o] = <<d>>

\* ---- C17 ------------------------------------------------------------------
\* the armed timers of the next() calls of probe o
TimersOf(o) == {c \in timers : calls[c].probe = o}

\* C17: the armed timers of a probe are exactly those of its waiting next()
\* calls, one each, and these are exactly its unsettled calls; so a timer
\* that fires always belongs to a call that is still waiting.
TimersMatchWaiters ==
  /\ [](\A o \in Probes :
          /\ TimersOf(o) = Range(pending[o])
          /\ Cardinality(Range(pending[o])) = Len(pending[o])
          /\ Range(pending[o]) = Waiting(o))
  /\ [][ \A c \in Calls : TimerFire(c) => calls[c].outcome = "pending" ]_vars

\* a call resolved by delivery and a call rejected by dispose(), neither with
\* a timer left
TimersMatchWaitersWitness ==
  \E o \in disposed : \E c \in CallsOf(o), d \in CallsOf(o) :
    /\ Resolved(c) /\ calls[c].ms # Undefined
    /\ calls[d].outcome = "disposed"
    /\ timers = {}

\* ---- C19 ------------------------------------------------------------------
\* probe p is left as it is by a step: its buffer, waiters, timers, calls and
\* registration
Untouched(p) ==
  /\ queue'[p] = queue[p]
  /\ pending'[p] = pending[p]
  /\ TimersOf(p)' = TimersOf(p)
  /\ \A c \in CallsOf(p) : calls'[c] = calls[c]
  /\ (p \in Range(subscribers')) <=> (p \in Range(subscribers))

\* C19: next(), dispose() or a timeout on one probe, and the delivery of an
\* event tagged for one probe, leave every other probe untouched; a probe
\* that is registered goes on taking the events of its scope whatever has
\* been disposed meanwhile.
PrivateState ==
  [][ \A o \in Probes :
        /\ ( \/ \E t \in TimeoutArgs : NextCall(o, t)
             \/ Dispose(o)
             \/ \E c \in CallsOf(o) : TimerFire(c)
             \/ \E ch \in Chains, l \in Labels :
                  ProbeEmit(ch, l) /\ currentScope(ch) = scope(o) ) =>
             \A p \in Probes \ {o} : Untouched(p)
        /\ ( /\ o \in Range(subscribers)
             /\ Len(emitted') = Len(emitted) + 1
             /\ Len(emitted') \in AcceptedValues(o)' ) =>
             Len(emitted') \in QueueValues(o)' \cup DeliveredValues(o)' ]_vars

\* probe 2 was disposed with a call rejected; probe 1 is registered, a call of
\* its own was resolved by an event and a later event is in its buffer
PrivateStateWitness ==
  /\ 2 \in disposed /\ 1 \in Range(subscribers)
  /\ \E c \in CallsOf(2) : calls[c].outcome = "disposed"
  /\ \E d \in CallsOf(1) :
       /\ Resolved(d) /\ calls[d].ms # Undefined
       /\ \E v \in QueueValues(1) : v > calls[d].ev.value

\* ---- C20 ------------------------------------------------------------------
\* C20: an event is never in a buffer twice, never delivered to two next()
\* calls and never both buffered and delivered, and only accepted events are
\* buffered or delivered; an event a registered probe accepts goes into its
\* buffer or to a waiting call; a delivered event stays delivered; a buffered
\* event leaves the buffer only by delivery, by eviction from the front of a
\* full buffer when another event is accepted, or by dispose().
EventConservation ==
  /\ [](\A o \in Probes :
          /\ Cardinality(QueueValues(o)) = Len(queue[o])
          /\ \A c \in CallsOf(o), d \in CallsOf(o) :
               Resolved(c) /\ Resolved(d) /\ c # d => calls[c].ev.value # calls[d].ev.value
          /\ QueueValues(o) \cap DeliveredValues(o) = {}
          /\ QueueValues(o) \cup DeliveredValues(o) \subseteq AcceptedValues(o))
  /\ [][ \A o \in Probes :
           /\ ( /\ o \in Range(subscribers)
                /\ Len(emitted') = Len(emitted) + 1
                /\ Len(emitted') \in AcceptedValues(o)' ) =>
                Len(emitted') \in QueueValues(o)' \cup DeliveredValues(o)'
           /\ DeliveredValues(o) \subseteq DeliveredValues(o)'
           /\ \A i \in QueueValues(o) :
                \/ i \in QueueValues(o)'
                \/ i \in DeliveredValues(o)'
                \/ Dispose(o)
                \/ /\ Len(emitted') = Len(emitted) + 1
                   /\ Len(emitted') \in QueueValues(o)'
                   /\ Len(queue[o]) >= bufferSize(o)
                   /\ i = queue[o][1].value ]_vars

\* of three events a probe accepted, the first was evicted by the second, the
\* second was delivered to a next() call and the third is in the buffer
EventConservationWitness ==
  \E o \in Range(subscribers) :
    /\ AcceptedValues(o) = {1, 2, 3}
    /\ DeliveredValues(o) = {2}
    /\ QueueValues(o) = {3}

\* ---- C18 ------------------------------------------------------------------
Outcomes == {"resolved", "timeout", "disposed"}

\* C18: with armed timers firing in the end, every next() call gets one of
\* the outcomes resolved, timeout or disposed, and a call that has an outcome
\* keeps it, with its event, for good.
EventuallySettled ==
  /\ \A c \in 1..MaxCalls : (c \in Calls) ~> (c \in Calls /\ calls[c].outcome \in Outcomes)
  /\ [](\A c \in Calls : calls[c].outcome \in Outcomes \cup {"pending"})
  /\ [][ \A c \in Calls : calls[c].outcome \in Outcomes => calls'[c] = calls[c] ]_vars

\* on a disposed probe one call was rejected by dispose() and a later one by
\* its timer, and nothing is waiting
EventuallySettledWitness ==
  \E o \in disposed : \E c \in CallsOf(o), d \in CallsOf(o) :
    /\ c < d
    /\ calls[c].outcome = "disposed"
    /\ calls[d].outcome = "timeout"
    /\ timers = {}

TypeOK ==
  /\ Range(subscribers) \subseteq Probes
  /\ timers \subseteq Calls
  /\ \A o \in Probes : Range(pending[o]) \subseteq Calls
====
